---- MODULE Spec2Model ----
(***************************************************************************)
(* The UI driver facade of wja_desktop_automation: the three BaseClass     *)
(* variants (base_class.py, 1.py, 3.py), their readiness wait, their       *)
(* action methods, the shared logger and the class-scoped fixture of 3.py. *)
(*                                                                         *)
(* Time is counted in ticks of half a second (the sleep of the polling     *)
(* variant).  The control's live state belongs to the application under    *)
(* test: it may change arbitrarily from one tick to the next.  The driver  *)
(* (pywinauto) is the environment: every call of it may raise.             *)
(***************************************************************************)
EXTENDS Integers, Sequences, FiniteSets, TLC

\* ------------------------------------------------------------------ bounds
\* largest default_timeout (and timeout argument) drawn, in seconds
MaxTimeout == 2

\* ------------------------------------------------------- program constants
\* ticks per second: one tick is the 0.5 s of time.sleep(0.5)
TicksPerSecond == 2
\* element.wait(..., timeout=1) of the polling variant, in seconds
SubWaitTimeout == 1
\* time.sleep(0.5) of the polling variant, in ticks
SleepTicks == 1
\* self.config.get("default_timeout", 20)
FallbackTimeout == 20
\* a key that config.json does not hold
Missing == -1
\* wait_for_element(locator, timeout=None) of 1.py called without a timeout
NoArg == -2

Ticks(seconds) == seconds * TicksPerSecond

Variants == {"base_class", "1", "3"}
Parents == {"main_window", "dialog"}
Locators == {"title", "auto_id"}

\* --------------------------------------------------------------- the driver
\* The live state of a control.  A control that does not exist is neither
\* visible nor enabled.
CtlStates ==
  { c \in [exists : BOOLEAN, visible : BOOLEAN, enabled : BOOLEAN] :
      (~c.exists) => (~c.visible /\ ~c.enabled) }

NoCtl == [exists |-> FALSE, visible |-> FALSE, enabled |-> FALSE]

\* The four states the facade names, as the control has them: "ready" is the
\* driver's name for visible and enabled.
HasState(c, s) ==
  CASE s = "exists" -> c.exists
    [] s = "visible" -> c.visible
    [] s = "enabled" -> c.enabled
    [] s = "ready" -> c.visible /\ c.enabled
    [] OTHER -> FALSE

IsReady(c) == \A s \in {"exists", "enabled", "visible", "ready"} : HasState(c, s)

\* The state flags each wait call passes to the driver.
FlagsBase == {"exists", "enabled", "visible", "ready"}
Flags1 == {"exists", "enabled", "visible", "ready"}
Flags3Mutant == {"exists", "visible"}
Flags3 == {"exists", "ready", "visible"}
FlagsWindow == {"visible"}

\* The check methods a wait on `flags` calls on the control: the driver expands
\* "ready" to is_visible and is_enabled.
Checks(flags) ==
  UNION { CASE f = "exists" -> {"exists"}
            [] f = "visible" -> {"is_visible"}
            [] f = "enabled" -> {"is_enabled"}
            [] f = "ready" -> {"is_visible", "is_enabled"}
            [] OTHER -> {} : f \in flags }

CheckTrue(c, m) ==
  CASE m = "exists" -> c.exists
    [] m = "is_visible" -> c.visible
    [] m = "is_enabled" -> c.enabled
    [] OTHER -> FALSE

\* One poll of the driver's wait(flags, timeout), `elapsed` ticks after the wait
\* began, on a control in state c: "ok" when every check reports true,
\* "TimeoutError" when the timeout has elapsed, "DriverError" when the driver
\* raises anything else, "again" when it sleeps and polls again.
DriverWait(flags, timeout, elapsed, c, fault) ==
  IF fault THEN "DriverError"
  ELSE IF \A m \in Checks(flags) : CheckTrue(c, m) THEN "ok"
  ELSE IF elapsed >= timeout THEN "TimeoutError"
  ELSE "again"

\* ------------------------------------------------------- wait_for_element
\* The state of one call of wait_for_element:
\*   st   "run", "ret" (returned the control) or the class of the error raised
\*   sub  polling variant: ticks since the current sub-wait began, -1 at the
\*        head of the loop
\*   log  the levels logged by wait_for_element itself
\*   seen the check methods the successful wait saw true
\*   elem the control returned: <<parent, locator>>
NoElem == <<"None", "None">>

WaitStart(v) ==
  [st |-> "run", sub |-> -1,
   log |-> IF v = "base_class" THEN <<"info">> ELSE <<>>,
   seen |-> {}, elem |-> NoElem]

Idle == [st |-> "none", sub |-> -1, log |-> <<>>, seen |-> {}, elem |-> NoElem]

\* parent.child_window(**locator): the control the locator names under the parent
child_window(parent, locator) == <<parent, locator>>

\* base_class.py: one blocking wait on default_timeout, everything inside the try.
wait_for_element_base(W, parent, locator, cfgT, t, c, fault) ==
  IF cfgT = Missing
  THEN [W EXCEPT !.st = "KeyError", !.log = Append(W.log, "error")]
  ELSE
    LET r == DriverWait(FlagsBase, Ticks(cfgT), t, c, fault) IN
    CASE r = "ok" ->
           [W EXCEPT !.st = "ret", !.log = Append(W.log, "info"),
                     !.seen = Checks(FlagsBase),
                     !.elem = child_window(parent, locator)]
      [] r = "again" -> W
      [] OTHER -> [W EXCEPT !.st = r, !.log = Append(W.log, "error")]

\* 1.py: timeout = timeout or default_timeout is taken before the try; the
\* control is looked up under self.main_window.
EffectiveTimeout1(arg, cfgT) == IF arg # NoArg /\ arg # 0 THEN arg ELSE cfgT

wait_for_element_1(W, main_window, locator, arg, cfgT, t, c, fault) ==
  LET timeout == EffectiveTimeout1(arg, cfgT) IN
  IF timeout = Missing
  THEN [W EXCEPT !.st = "KeyError"]
  ELSE IF main_window = "None"
  THEN [W EXCEPT !.st = "AttributeError", !.log = Append(W.log, "error")]
  ELSE
    LET r == DriverWait(Flags1, Ticks(timeout), t, c, fault) IN
    CASE r = "ok" ->
           [W EXCEPT !.st = "ret", !.log = Append(W.log, "info"),
                     !.seen = Checks(Flags1),
                     !.elem = child_window(main_window, locator)]
      [] r = "again" -> W
      [] OTHER -> [W EXCEPT !.st = r, !.log = Append(W.log, "error")]

\* 3.py: a loop of sub-waits of up to one second, each failure followed by a
\* sleep, until end_time; then an error-level log and TimeoutError.
Timeout3Mutant(cfgT) == IF cfgT = Missing THEN 0 ELSE cfgT
Timeout3(cfgT) == IF cfgT = Missing THEN FallbackTimeout ELSE cfgT

LoopContinuesMutant(t, end_time) == TRUE
LoopContinues(t, end_time) == t < end_time

wait_for_element_3Mutant(W, parent, locator, cfgT, t, c, fault) ==
  LET end_time == Ticks(Timeout3(cfgT))
      s == IF W.sub < 0 THEN 0 ELSE W.sub
      r == DriverWait(Flags3, Ticks(SubWaitTimeout), s, c, fault)
  IN
  IF W.sub < 0 /\ ~LoopContinues(t, end_time)
  THEN [W EXCEPT !.st = "TimeoutError", !.log = Append(W.log, "error")]
  ELSE
    CASE r = "ok" ->
           [W EXCEPT !.st = "ret", !.seen = Checks(Flags3),
                     !.elem = child_window(parent, locator)]
      [] r = "again" -> [W EXCEPT !.sub = s + 1]
      [] r = "TimeoutError" -> [W EXCEPT !.sub = -1]
      [] OTHER -> [W EXCEPT !.st = r, !.log = Append(W.log, "error")]

wait_for_element_3(W, parent, locator, cfgT, t, c, fault) ==
  LET end_time == Ticks(Timeout3(cfgT))
      s == IF W.sub < 0 THEN 0 ELSE W.sub
      r == DriverWait(Flags3, Ticks(SubWaitTimeout), s, c, fault)
  IN
  IF W.sub < 0 /\ ~LoopContinues(t, end_time)
  THEN [W EXCEPT !.st = "TimeoutError", !.log = Append(W.log, "error")]
  ELSE
    CASE r = "ok" ->
           [W EXCEPT !.st = "ret", !.seen = Checks(Flags3),
                     !.elem = child_window(parent, locator)]
      [] r = "again" -> [W EXCEPT !.sub = s + 1]
      [] OTHER -> [W EXCEPT !.sub = -1]

\* The driver's wait("visible") on the main window, as launch_application and
\* connect_to_main_window call it: the timeout is config["default_timeout"].
window_wait(W, cfgT, t, c, fault) ==
  IF cfgT = Missing
  THEN [W EXCEPT !.st = "KeyError"]
  ELSE
    LET r == DriverWait(FlagsWindow, Ticks(cfgT), t, c, fault) IN
    CASE r = "ok" -> [W EXCEPT !.st = "ret", !.seen = Checks(FlagsWindow)]
      [] r = "again" -> W
      [] OTHER -> [W EXCEPT !.st = r]

\* ------------------------------------------------------------ the methods
WindowOps == {"launch_application", "connect_to_main_window"}

\* the action methods: each waits for its control and then drives it
ElementActions ==
  {"click_element", "enter_text", "set_checkbox", "select_combobox",
   "expand_tree_item", "right_click_element", "select_context_menu",
   "wizard_next", "wizard_finish"}

Methods(v) ==
  CASE v = "base_class" ->
         {"launch_application", "connect_to_main_window", "wait_for_element",
          "click_element", "enter_text", "right_click_element",
          "select_context_menu", "wizard_next", "wizard_finish",
          "bring_window_to_front"}
    [] v = "1" ->
         {"launch_application", "connect_to_main_window", "wait_for_element",
          "click_element", "enter_text", "expand_tree_item",
          "right_click_element"}
    [] v = "3" ->
         {"launch_application", "connect_to_main_window", "wait_for_element",
          "click_element", "enter_text", "set_checkbox", "select_combobox"}
    [] OTHER -> {}

\* the driver calls that send input to a control or change its state
InputCalls ==
  {"set_focus", "click_input", "right_click_input", "type_keys", "toggle",
   "select", "expand"}

\* set_checkbox: toggle only when the control is not in the desired state
NeedsToggleMutant(check, current) == check \/ current = 1
NeedsToggle(check, current) ==
  (check /\ current = 0) \/ (~check /\ current = 1)

\* expand_tree_item: expand only when the item is not expanded
NeedsExpand(is_expanded) == ~is_expanded

\* The driver calls an action method makes on its control once the call of
\* wait_for_element is over: none when the wait raised.  flag is check
\* (set_checkbox) or clear (enter_text of 1.py); current is get_toggle_state().
ActionCallsMutant(name, v, flag, current, is_expanded, waited) ==
  IF name = "click_element" THEN <<"set_focus", "click_input">> ELSE <<>>

ActionCalls(name, v, flag, current, is_expanded, waited) ==
  IF ~waited THEN <<>>
  ELSE
    CASE name = "click_element" -> <<"set_focus", "click_input">>
      [] name = "enter_text" ->
           IF v = "base_class" \/ (v = "1" /\ ~flag)
           THEN <<"set_focus", "type_keys">>
           ELSE <<"set_focus", "type_keys", "type_keys">>
      [] name = "set_checkbox" ->
           <<"set_focus", "get_toggle_state">>
             \o (IF NeedsToggle(flag, current) THEN <<"toggle">> ELSE <<>>)
      [] name = "select_combobox" -> <<"set_focus", "select">>
      [] name = "expand_tree_item" ->
           <<"is_expanded">>
             \o (IF NeedsExpand(is_expanded) THEN <<"expand">> ELSE <<>>)
      [] name = "right_click_element" -> <<"set_focus", "right_click_input">>
      [] name \in {"select_context_menu", "wizard_next", "wizard_finish"} ->
           <<"click_input">>
      [] name \in WindowOps -> <<"set_focus">>
      [] OTHER -> <<>>

\* A checkbox: its toggle state (0 unchecked, 1 checked, 2 indeterminate) and
\* whether it is a three-state box.  toggle() moves it to the next state of
\* its cycle.
BoxStates == { b \in [state : 0..2, tri : BOOLEAN] : b.state = 2 => b.tri }
NoBox == [state |-> 0, tri |-> FALSE]
toggle(b) ==
  [b EXCEPT !.state = IF b.tri THEN (b.state + 1) % 3 ELSE 1 - b.state]

\* How a method ends once its wait and its driver calls are over: what it logs
\* last and what its caller gets.  ok: nothing raised; cls: the class raised.
\* wait_for_element has logged already (its log is in the wait record).
FinishMutant(name, v, ok, cls) ==
  IF name = "wait_for_element"
  THEN [log |-> <<>>, outcome |-> IF ok THEN "returned" ELSE cls]
  ELSE [log |-> <<IF ok THEN "info" ELSE "error">>, outcome |-> "returned"]

Finish(name, v, ok, cls) ==
  IF name = "wait_for_element"
  THEN [log |-> <<>>, outcome |-> IF ok THEN "returned" ELSE cls]
  ELSE IF name = "launch_application" /\ v = "3"
  THEN [log |-> IF ok THEN <<"info">> ELSE <<"error", "error">>,
        outcome |-> IF ok THEN "returned" ELSE cls]
  ELSE [log |-> <<IF ok THEN "info" ELSE "error">>,
        outcome |-> IF ok THEN "returned" ELSE cls]

\* bring_window_to_front: a failure of set_focus is logged as a warning and
\* not raised.
bring_window_to_front(fault) ==
  [log |-> <<IF fault THEN "warning" ELSE "info">>, outcome |-> "returned"]

\* _get_logger: a handler is added only to a logger that has none
get_loggerMutant(handlers) == handlers + 1
get_logger(handlers) == IF handlers = 0 THEN handlers + 1 ELSE handlers

\* __init__: config.json is opened and config["backend"] read outside any try,
\* before the logger exists.
initMutant(file, backend) ==
  IF ~file THEN [log |-> <<"error">>, outcome |-> "FileNotFoundError"]
  ELSE IF ~backend THEN [log |-> <<"error">>, outcome |-> "KeyError"]
  ELSE [log |-> <<>>, outcome |-> "returned"]

init(file, backend) ==
  IF ~file THEN [log |-> <<>>, outcome |-> "FileNotFoundError"]
  ELSE IF ~backend THEN [log |-> <<>>, outcome |-> "KeyError"]
  ELSE [log |-> <<>>, outcome |-> "returned"]

\* ---------------------------------------------------------------- state
VARIABLES
  handlers,   \* handlers on logging.getLogger("WJA_Automation"), process-wide
  obj,        \* the facade object in use: variant, config, self.app, self.main_window
  op,         \* the method called last and its arguments
  pc,         \* "idle", "wait" (inside the readiness wait), "act", "done"
  clock,      \* ticks since the wait of the method began
  ctl,        \* the live state of the control (or window) waited for
  hist,       \* what happened during the call: see NoHist
  w,          \* the wait of the method
  wB,         \* EqSpec: the blocking wait run beside the polling one, and
              \* the variant it is of
  calls,      \* the driver calls made on the control after the wait
  log,        \* the levels logged during the call, in order
  outcome,    \* "returned" or the class of the exception the caller gets
  prev,       \* summary of the call before this one
  box,        \* the checkbox set_checkbox acts on
  fixture     \* setup_class of 3.py: "none", "setup", "yielded", "passed",
              \* "failed", "finished", "error"

vars ==
  <<handlers, obj, op, pc, clock, ctl, hist, w, wB, calls, log, outcome,
    prev, box, fixture>>

NoObj ==
  [variant |-> "None", default_timeout |-> Missing, app |-> "None",
   main_window |-> "None"]

NoOp ==
  [name |-> "None", parent |-> "None", locator |-> "None", flag |-> FALSE,
   arg |-> NoArg]

\* ready: the control was existing, enabled, visible and ready at some tick of
\*        the wait; early: at a tick before the timeout had elapsed; start: at
\*        the tick of the call; fault: the driver raised inside the wait;
\*        actFault: the driver raised in a call made after the wait
NoHist ==
  [ready |-> FALSE, early |-> FALSE, start |-> FALSE, fault |-> FALSE,
   actFault |-> FALSE]

NoPrev == [name |-> "None", flag |-> FALSE, elem |-> NoElem, toggles |-> 0]

NoSecond == [v |-> "None", W |-> Idle]

Timeouts == 0..MaxTimeout

Init ==
  /\ handlers = 0
  /\ obj = NoObj
  /\ op = NoOp
  /\ pc = "idle"
  /\ clock = 0
  /\ ctl = NoCtl
  /\ hist = NoHist
  /\ w = Idle
  /\ wB = NoSecond
  /\ calls = <<>>
  /\ log = <<>>
  /\ outcome = "none"
  /\ prev = NoPrev
  /\ box = NoBox
  /\ fixture = "none"

\* the timeout, in ticks, in force in the wait of the current call; -1 when the
\* lookup of default_timeout fails
Deadline ==
  LET T == IF op.name \in WindowOps \/ obj.variant = "base_class"
             THEN obj.default_timeout
           ELSE IF obj.variant = "1"
             THEN EffectiveTimeout1(op.arg, obj.default_timeout)
           ELSE Timeout3(obj.default_timeout)
  IN IF T = Missing THEN -1 ELSE Ticks(T)

\* the polling step: a sub-wait and the sleep that follows it
StepTicks == Ticks(SubWaitTimeout) + SleepTicks

\* The clock is followed this far: past every timeout drawn and the polling
\* step after it.  A wait on the fallback timeout of 3.py is followed up to
\* here and no further.
ClockCap == Ticks(MaxTimeout) + StepTicks + 1

\* a test class is being run, or has been: its object takes no other call
InFixture == fixture # "none"

\* ------------------------------------------------------------- __init__
Construct(v, file, backend, T) ==
  /\ pc = "idle"
  /\ fixture \notin {"setup", "yielded", "passed", "failed"}
  /\ LET r == init(file, backend)
         ok == r.outcome = "returned"
     IN
     /\ obj' = IF ok
               THEN [variant |-> v, default_timeout |-> T, app |-> "None",
                     main_window |-> "None"]
               ELSE obj
     /\ handlers' = IF ok THEN get_logger(handlers) ELSE handlers
     /\ fixture' = IF ok THEN "none" ELSE fixture
     /\ log' = r.log
     /\ outcome' = r.outcome
  /\ op' = [NoOp EXCEPT !.name = "__init__", !.flag = obj # NoObj]
  /\ pc' = "done"
  /\ clock' = 0
  /\ ctl' = NoCtl
  /\ hist' = NoHist
  /\ w' = Idle
  /\ calls' = <<>>
  /\ box' = NoBox
  /\ prev' = NoPrev
  /\ UNCHANGED wB

\* ------------------------------------------------- a method is called
\* c: the state the control is in when the call begins
StartCall(o, c, b) ==
  /\ op' = o
  /\ pc' = "wait"
  /\ clock' = 0
  /\ ctl' = c
  /\ hist' = [NoHist EXCEPT !.start = IsReady(c)]
  /\ calls' = <<>>
  /\ outcome' = "pending"
  /\ box' = b

\* the arguments a method takes
ParentsOf(name) ==
  IF obj.variant = "1" THEN {"main_window"}
  ELSE IF name = "select_context_menu" THEN {"menu"}
  ELSE Parents

LocatorsOf(name) ==
  IF name \in {"select_context_menu", "wizard_next", "wizard_finish"}
  THEN {"title"} ELSE Locators

FlagsOf(name) ==
  IF name = "set_checkbox" \/ (name = "enter_text" /\ obj.variant = "1")
  THEN BOOLEAN ELSE {FALSE}

ArgsOf(name) ==
  IF name = "wait_for_element" /\ obj.variant = "1"
  THEN {NoArg} \cup Timeouts ELSE {NoArg}

\* set_checkbox called again on the control of the call before finds the box
\* as that call left it; any other call finds it in any state
SameBox(name, parent, locator) ==
  name = "set_checkbox" /\ prev.name = "set_checkbox"
    /\ prev.elem = <<parent, locator>>

\* wait_for_element and the action methods
Call(name, parent, locator, flag, arg, c) ==
  /\ StartCall([name |-> name, parent |-> parent, locator |-> locator,
                flag |-> flag, arg |-> arg], c,
               IF SameBox(name, parent, locator) THEN box ELSE NoBox)
  /\ w' = WaitStart(obj.variant)
  /\ log' = <<>>
  /\ prev' = IF SameBox(name, parent, locator) THEN prev ELSE NoPrev
  /\ UNCHANGED <<handlers, obj, wB, fixture>>

\* connect_to_main_window: base_class.py and 1.py assign self.main_window
\* before the wait; 3.py logs first and assigns nothing.
ConnectCall(c) ==
  /\ StartCall([NoOp EXCEPT !.name = "connect_to_main_window"], c, NoBox)
  /\ w' = [WaitStart(obj.variant) EXCEPT !.log = <<>>]
  /\ log' = IF obj.variant = "3" THEN <<"info">> ELSE <<>>
  /\ obj' = IF obj.variant = "3" THEN obj
            ELSE [obj EXCEPT !.main_window = "main_window"]
  /\ prev' = NoPrev
  /\ UNCHANGED <<handlers, wB, fixture>>

\* launch_application up to its wait: the process is started (start may raise),
\* then the main window is waited for.  The test of 1.py calls it itself; in
\* 3.py its one caller is setup_class (fx: the state of the fixture).
LaunchCall(c, started, fx) ==
  /\ StartCall([NoOp EXCEPT !.name = "launch_application"], c, NoBox)
  /\ w' = IF started THEN [WaitStart(obj.variant) EXCEPT !.log = <<>>]
          ELSE [Idle EXCEPT !.st = "DriverError"]
  /\ log' = IF obj.variant = "3" /\ started THEN <<"info", "info">>
            ELSE <<"info">>
  /\ obj' = IF ~started THEN obj
            ELSE IF obj.variant = "3" THEN [obj EXCEPT !.app = "running"]
            ELSE [obj EXCEPT !.app = "running", !.main_window = "main_window"]
  /\ fixture' = fx
  /\ prev' = NoPrev
  /\ UNCHANGED <<handlers, wB>>

\* ------------------------------------------------------- inside the wait
WaitStep(fault) ==
  IF w.st # "run" THEN w
  ELSE IF op.name \in WindowOps
  THEN window_wait(w, obj.default_timeout, clock, ctl, fault)
  ELSE IF obj.variant = "base_class"
  THEN wait_for_element_base(w, op.parent, op.locator, obj.default_timeout,
                             clock, ctl, fault)
  ELSE IF obj.variant = "1"
  THEN wait_for_element_1(w, obj.main_window, op.locator, op.arg,
                          obj.default_timeout, clock, ctl, fault)
  ELSE wait_for_element_3(w, op.parent, op.locator, obj.default_timeout,
                          clock, ctl, fault)

\* One tick of the wait: the driver polls the control (and may raise); when the
\* wait goes on, half a second passes and the control may change.
Poll ==
  /\ pc = "wait"
  /\ \E fault \in BOOLEAN, c \in CtlStates :
       LET W == WaitStep(fault) IN
       /\ fault => W # WaitStep(FALSE)
       /\ w' = W
       /\ hist' = [hist EXCEPT
                     !.ready = @ \/ IsReady(ctl),
                     !.early = @ \/ (IsReady(ctl) /\ clock < Deadline),
                     !.fault = @ \/ fault]
       /\ IF W.st = "run"
          THEN /\ clock < ClockCap
               /\ clock' = clock + 1
               /\ ctl' = c
               /\ pc' = "wait"
          ELSE /\ clock' = clock
               /\ ctl' = ctl
               /\ c = ctl
               /\ pc' = "act"
  /\ UNCHANGED <<handlers, obj, op, wB, calls, log, outcome, prev, box, fixture>>

\* ---------------------------------------------------- after the wait
\* The rest of the method: its driver calls on the control, of which the
\* first k complete and the next one, if any, raises; then the final log and
\* the return or the raise.
Act ==
  /\ pc = "act"
  /\ \E is_expanded \in BOOLEAN, found \in BoxStates :
       LET waited == w.st = "ret"
           seq == ActionCalls(op.name, obj.variant, op.flag, found.state,
                              is_expanded, waited)
       IN
       /\ is_expanded => op.name = "expand_tree_item" /\ waited
       /\ IF op.name = "set_checkbox" /\ waited /\ prev = NoPrev
          THEN TRUE ELSE found = box
       /\ \E k \in 0..Len(seq) :
            LET ok == waited /\ k = Len(seq)
                made == SubSeq(seq, 1, IF k < Len(seq) THEN k + 1 ELSE k)
                cls == IF waited THEN "DriverError" ELSE w.st
                f == Finish(op.name, obj.variant, ok, cls)
            IN
            /\ calls' = made
            /\ log' = log \o w.log \o f.log
            /\ outcome' = f.outcome
            /\ hist' = [hist EXCEPT !.actFault = k < Len(seq)]
            /\ box' = IF \E i \in 1..k : seq[i] = "toggle"
                      THEN toggle(found) ELSE found
            /\ obj' = IF op.name = "launch_application" /\ obj.variant = "3" /\ ok
                      THEN [obj EXCEPT !.main_window = "main_window"] ELSE obj
  /\ pc' = "done"
  /\ UNCHANGED <<handlers, op, clock, ctl, w, wB, prev, fixture>>

\* bring_window_to_front(window) of base_class.py: no wait, one driver call
BringToFront(fault) ==
  /\ LET r == bring_window_to_front(fault) IN
     /\ log' = r.log
     /\ outcome' = r.outcome
  /\ op' = [NoOp EXCEPT !.name = "bring_window_to_front"]
  /\ calls' = <<"set_focus">>
  /\ hist' = [NoHist EXCEPT !.actFault = fault]
  /\ pc' = "done"
  /\ clock' = 0
  /\ ctl' = NoCtl
  /\ w' = Idle
  /\ box' = NoBox
  /\ prev' = NoPrev
  /\ UNCHANGED <<handlers, obj, wB, fixture>>

\* The caller goes on to its next statement: what it keeps of the call is its
\* summary.
Summary ==
  IF op.name = "set_checkbox" /\ outcome = "returned"
  THEN [name |-> op.name, flag |-> op.flag,
        elem |-> <<op.parent, op.locator>>,
        toggles |-> Cardinality({i \in DOMAIN calls : calls[i] = "toggle"})]
  ELSE NoPrev

Return ==
  /\ pc = "done"
  /\ fixture # "setup"
  /\ prev' = Summary
  /\ pc' = "idle"
  /\ clock' = 0
  /\ ctl' = NoCtl
  /\ hist' = NoHist
  /\ w' = Idle
  /\ calls' = <<>>
  /\ log' = <<>>
  /\ outcome' = "none"
  /\ op' = NoOp
  /\ box' = IF Summary = NoPrev THEN NoBox ELSE box
  /\ UNCHANGED <<handlers, obj, wB, fixture>>

\* ------------------------------------------- setup_class of 3.py
\* The fixture calls launch_application; when that returns it yields to the
\* tests of the class, and after them kills self.app if it is set.  When
\* launch_application raises, the fixture raises before its yield and the
\* code after the yield never runs.
SetupClass(c, started) == LaunchCall(c, started, "setup")

SetupResume ==
  /\ pc = "done"
  /\ fixture = "setup"
  /\ fixture' = IF outcome = "returned" THEN "yielded" ELSE "error"
  /\ UNCHANGED <<handlers, obj, op, pc, clock, ctl, hist, w, wB, calls, log,
                 outcome, prev, box>>

TestBody(passed) ==
  /\ fixture = "yielded"
  /\ fixture' = IF passed THEN "passed" ELSE "failed"
  /\ UNCHANGED <<handlers, obj, op, pc, clock, ctl, hist, w, wB, calls, log,
                 outcome, prev, box>>

Teardown ==
  /\ fixture \in {"passed", "failed"}
  /\ obj' = IF obj.app # "None" THEN [obj EXCEPT !.app = "killed"] ELSE obj
  /\ fixture' = "finished"
  /\ UNCHANGED <<handlers, op, pc, clock, ctl, hist, w, wB, calls, log,
                 outcome, prev, box>>

CanCall == pc = "idle" /\ ~InFixture /\ obj # NoObj

Next ==
  \/ /\ pc = "idle"
     /\ \E v \in Variants, file \in BOOLEAN, backend \in BOOLEAN,
           T \in Timeouts \cup {Missing} :
          Construct(v, file, backend, T)
  \/ /\ CanCall
     /\ \E name \in Methods(obj.variant)
                      \ (WindowOps \cup {"bring_window_to_front"}) :
          \E parent \in ParentsOf(name), locator \in LocatorsOf(name),
             flag \in FlagsOf(name), arg \in ArgsOf(name), c \in CtlStates :
            Call(name, parent, locator, flag, arg, c)
  \/ /\ CanCall
     /\ \E c \in CtlStates : ConnectCall(c)
  \/ /\ CanCall
     /\ obj.variant # "3"
     /\ \E c \in CtlStates, started \in BOOLEAN :
          LaunchCall(c, started, fixture)
  \/ Poll
  \/ Act
  \/ /\ CanCall
     /\ "bring_window_to_front" \in Methods(obj.variant)
     /\ \E fault \in BOOLEAN : BringToFront(fault)
  \/ Return
  \/ /\ CanCall
     /\ obj.variant = "3"
     /\ obj.app = "None"
     /\ \E c \in CtlStates, started \in BOOLEAN : SetupClass(c, started)
  \/ SetupResume
  \/ \E passed \in BOOLEAN : TestBody(passed)
  \/ Teardown

Spec == Init /\ [][Next]_vars

\* ------------------------------------------- the two waits side by side
\* The polling wait of 3.py and the blocking wait of base_class.py or 1.py
\* (called without a timeout argument, main window connected), called at the
\* same moment on the same control with the same default_timeout: each tick
\* both see the same state of the control and the same behaviour of the driver.
EqInit ==
  /\ handlers = 1
  /\ \E T \in Timeouts \cup {Missing} :
       obj = [variant |-> "3", default_timeout |-> T, app |-> "None",
              main_window |-> "main_window"]
  /\ op = [NoOp EXCEPT !.name = "wait_for_element", !.parent = "main_window",
                       !.locator = "title"]
  /\ pc = "eq"
  /\ clock = 0
  /\ ctl \in CtlStates
  /\ hist = [NoHist EXCEPT !.start = IsReady(ctl)]
  /\ w = WaitStart("3")
  /\ \E v \in {"base_class", "1"} : wB = [v |-> v, W |-> WaitStart(v)]
  /\ calls = <<>>
  /\ log = <<>>
  /\ outcome = "pending"
  /\ prev = NoPrev
  /\ box = NoBox
  /\ fixture = "none"

EqPoll ==
  /\ pc = "eq"
  /\ w.st = "run" \/ wB.W.st = "run"
  /\ \E fault \in BOOLEAN, c \in CtlStates :
       LET P == IF w.st # "run" THEN w
                ELSE wait_for_element_3(w, op.parent, op.locator,
                                        obj.default_timeout, clock, ctl, fault)
           B == IF wB.W.st # "run" THEN wB.W
                ELSE IF wB.v = "base_class"
                THEN wait_for_element_base(wB.W, op.parent, op.locator,
                                           obj.default_timeout, clock, ctl,
                                           fault)
                ELSE wait_for_element_1(wB.W, obj.main_window, op.locator,
                                        op.arg, obj.default_timeout, clock,
                                        ctl, fault)
       IN
       /\ w' = P
       /\ wB' = [wB EXCEPT !.W = B]
       /\ hist' = [hist EXCEPT
                     !.ready = @ \/ IsReady(ctl),
                     !.early = @ \/ (IsReady(ctl) /\ clock < Deadline),
                     !.fault = @ \/ fault]
       /\ IF P.st = "run" \/ B.st = "run"
          THEN /\ clock < ClockCap
               /\ clock' = clock + 1
               /\ ctl' = c
          ELSE /\ clock' = clock
               /\ ctl' = ctl
               /\ c = ctl
  /\ UNCHANGED <<handlers, obj, op, pc, calls, log, outcome, prev, box, fixture>>

EqNext == EqPoll

EqSpec == EqInit /\ [][EqNext]_vars

\* ================================================================ claims
WaitCalled == op.name \in ElementActions \cup {"wait_for_element"}
WaitOver == pc \in {"act", "done"} /\ WaitCalled
HasTimeout == obj.default_timeout # Missing
\* the facade is connected: 1.py looks its controls up under self.main_window
Usable == obj.variant = "1" => obj.main_window # "None"
\* the driver raised nothing but timeouts where the facade does not retry
NoFault == obj.variant = "3" \/ ~hist.fault
HasError == \E i \in DOMAIN log : log[i] = "error"
ToggleCount == Cardinality({i \in DOMAIN calls : calls[i] = "toggle"})

\* C1 as stated: a wait for a control that never becomes ready ends in a
\* timeout-class error, and no later than default_timeout seconds, give or
\* take one polling step, after the call -- in every variant.
C1_Original ==
  /\ (pc = "wait" /\ WaitCalled /\ HasTimeout)
       => clock <= Ticks(obj.default_timeout) + StepTicks
  /\ (WaitOver /\ HasTimeout /\ Usable /\ NoFault /\ ~hist.ready)
       => /\ w.st = "TimeoutError"
          /\ clock <= Ticks(obj.default_timeout) + StepTicks

\* C1 amended: the bound is the timeout in force -- the timeout argument of
\* 1.py when one is given and is not 0, default_timeout otherwise -- plus one
\* polling step.
C1_Timeout ==
  /\ (pc = "wait" /\ WaitCalled /\ HasTimeout) => clock <= Deadline + StepTicks
  /\ (WaitOver /\ HasTimeout /\ Usable /\ NoFault /\ ~hist.ready)
       => /\ w.st = "TimeoutError"
          /\ clock <= Deadline + StepTicks

C1_Witness ==
  /\ pc = "done" /\ op.name = "wait_for_element" /\ obj.variant = "3"
  /\ HasTimeout /\ ~hist.ready
  /\ outcome = "TimeoutError" /\ clock > Deadline /\ Deadline > 0

\* C2: a control that wait_for_element returns is the one the locator names
\* under the parent scope, and the wait saw it existing, enabled, visible and
\* ready: each of the four states was checked, and the control had it.
C2_ReturnedControlReady ==
  (WaitOver /\ w.st = "ret")
    => /\ w.elem = <<op.parent, op.locator>>
       /\ \A s \in {"exists", "enabled", "visible", "ready"} :
            Checks({s}) \subseteq w.seen /\ HasState(ctl, s)

C2_Witness ==
  /\ pc = "done" /\ op.name = "wait_for_element" /\ obj.variant = "3"
  /\ op.parent = "dialog" /\ outcome = "returned" /\ clock > 0

\* C3: a control that is ready at a moment before the timeout has elapsed (or
\* from the start, with a timeout of 0) is returned, not raised for.
C3_ReadyInTimeReturns ==
  ( /\ WaitOver /\ Deadline >= 0 /\ Usable /\ ~hist.fault
    /\ \/ hist.early
       \/ hist.start /\ (obj.default_timeout = 0 \/ op.arg = 0) )
    => w.st = "ret"

\* C4: of two consecutive successful set_checkbox calls on one control with
\* the same check, the second issues no toggle and the two at most one.
C4_SecondCallNoToggle ==
  ( /\ pc = "done" /\ op.name = "set_checkbox" /\ outcome = "returned"
    /\ prev.name = "set_checkbox" /\ prev.elem = <<op.parent, op.locator>>
    /\ prev.flag = op.flag )
    => ToggleCount = 0 /\ prev.toggles <= 1

C4_Witness ==
  /\ pc = "done" /\ op.name = "set_checkbox" /\ outcome = "returned"
  /\ prev.name = "set_checkbox" /\ prev.flag /\ op.flag
  /\ prev.toggles = 1 /\ ToggleCount = 0

\* C5: once a BaseClass has been constructed the shared logger carries exactly
\* one handler, however many constructions follow; before, it carries none.
C5_OneHandler == handlers = IF obj = NoObj THEN 0 ELSE 1

C5_Witness ==
  /\ pc = "done" /\ op.name = "__init__" /\ op.flag /\ outcome = "returned"
  /\ handlers = 1

\* the readiness wait of the call raised, or a driver call after it did
Failed == w.st \in {"TimeoutError", "DriverError"} \/ hist.actFault

\* C6 as stated: every facade operation whose wait times out or whose driver
\* call raises logs at error level and raises to its caller.
C6_Original ==
  (pc = "done" /\ Failed) => outcome # "returned" /\ HasError

\* C6 amended: so does every facade operation but bring_window_to_front, which
\* logs the failure at warning level and returns normally.
C6_Amended ==
  (pc = "done" /\ Failed)
    => IF op.name = "bring_window_to_front"
       THEN outcome = "returned" /\ log = <<"warning">>
       ELSE /\ outcome = IF w.st = "ret" THEN "DriverError" ELSE w.st
            /\ HasError

C6_Witness ==
  /\ pc = "done" /\ op.name = "set_checkbox" /\ hist.actFault
  /\ outcome = "DriverError" /\ HasError

\* C7 as stated: a failure to load the configuration in the constructor is
\* logged at error level and raised.
C7_Original ==
  (pc = "done" /\ op.name = "__init__" /\ outcome # "returned") => HasError

\* C7 amended: it is raised to the caller of the constructor and nothing is
\* logged; the logger is not set up by a constructor that fails.
C7_Amended ==
  (pc = "done" /\ op.name = "__init__" /\ outcome # "returned")
    => /\ outcome \in {"FileNotFoundError", "KeyError"}
       /\ log = <<>>
       /\ ~op.flag => (handlers = 0 /\ obj = NoObj)

C7_Witness ==
  pc = "done" /\ op.name = "__init__" /\ outcome = "KeyError" /\ ~op.flag

\* C8 (EqSpec): with the same default_timeout, the polling wait and the
\* blocking wait, on the same history of the control and of the driver, both
\* return the control or both raise the same class of error.
C8_Equivalent ==
  (pc = "eq" /\ HasTimeout /\ w.st # "run" /\ wB.W.st # "run")
    => w.st = wB.W.st

\* C9: an action method makes an input or state-changing driver call on its
\* control only after wait_for_element has returned it in the same call.
C9_InputAfterWait ==
  (op.name \in ElementActions /\ \E i \in DOMAIN calls : calls[i] \in InputCalls)
    => w.st = "ret"

C9_Witness ==
  /\ pc = "done" /\ op.name = "right_click_element"
  /\ calls = <<"set_focus", "right_click_input">> /\ outcome = "returned"

\* C10: whenever a run of setup_class is over (default_timeout configured) and
\* launch_application had started the process, the process has been killed.
C10_KilledAtTeardown ==
  (fixture \in {"finished", "error"} /\ HasTimeout /\ obj.app # "None")
    => obj.app = "killed"

\* launch_application whose Application.start raised: it never came to its wait
StartFailed ==
  op.name = "launch_application" /\ w.st = "DriverError" /\ ~hist.fault

\* the call came to the place where it reads default_timeout: 1.py reads it
\* only without a timeout argument (or with one of 0)
UsesTimeout ==
  /\ obj # NoObj
  /\ op.name \in WindowOps \cup ElementActions \cup {"wait_for_element"}
  /\ ~StartFailed
  /\ (obj.variant = "1" /\ op.name = "wait_for_element")
       => op.arg \in {NoArg, 0}

\* C11 as stated: with default_timeout missing from config.json, a call that
\* reads it raises a lookup error (KeyError) and waits on no other timeout: no
\* time passes in its wait.
C11_Original ==
  (UsesTimeout /\ ~HasTimeout)
    => /\ pc = "wait" => clock = 0
       /\ pc \in {"act", "done"} => w.st = "KeyError"
       /\ pc = "done" => outcome = "KeyError"

\* C11 amended: so it is in every variant but for wait_for_element of 3.py
\* (and the action methods, which call it): that one never raises a lookup
\* error and waits on a fallback timeout of 20 seconds, raising no timeout
\* before it has elapsed.
C11_Amended ==
  (UsesTimeout /\ ~HasTimeout)
    => IF obj.variant = "3" /\ WaitCalled
       THEN /\ w.st # "KeyError" /\ outcome # "KeyError"
            /\ w.st = "TimeoutError" => clock >= Ticks(FallbackTimeout)
       ELSE /\ pc = "wait" => clock = 0
            /\ pc \in {"act", "done"} => w.st = "KeyError"
            /\ pc = "done" => outcome = "KeyError"

C11_Witness ==
  /\ pc = "done" /\ ~HasTimeout /\ obj.variant = "base_class"
  /\ op.name = "wait_for_element" /\ hist.start
  /\ outcome = "KeyError" /\ clock = 0

\* C12: when set_checkbox(check) has returned without raising, the toggle
\* state of the checkbox is 1 for check true and 0 for check false, whatever
\* state (0, 1 or 2) the call found it in.
C12_RequestedState ==
  (pc = "done" /\ op.name = "set_checkbox" /\ outcome = "returned")
    => box.state = IF op.flag THEN 1 ELSE 0

\* C13: wait_for_element of 3.py, called directly or by an action method,
\* takes a driver exception inside a poll as it takes a timeout of the
\* sub-wait: it goes on polling.  It ends only by returning the control or by
\* the TimeoutError raised after the loop, once the deadline has passed; it
\* logs nothing but one error, the last thing before that raise.
C13_OnlyTimeoutRaised ==
  (obj.variant = "3" /\ WaitCalled)
    => /\ w.st \in {"run", "ret", "TimeoutError"}
       /\ w.log = IF w.st = "TimeoutError" THEN <<"error">> ELSE <<>>
       /\ w.st = "TimeoutError" => clock >= Deadline
       /\ (pc = "done" /\ op.name = "wait_for_element")
            => /\ outcome = IF w.st = "ret" THEN "returned" ELSE "TimeoutError"
               /\ log = w.log

C13_Witness ==
  /\ pc = "done" /\ obj.variant = "3" /\ op.name = "wait_for_element"
  /\ hist.fault /\ Deadline > 0 /\ clock >= Deadline
  /\ outcome = "TimeoutError" /\ log = <<"error">>
====
